---- MODULE Spec2Model ----
(***************************************************************************)
(* Model of the PDF outline extractor (StructureExtractor) and of the      *)
(* persona-driven ranking (PersonaAnalyzer).                               *)
(*                                                                         *)
(* Python strings are modelled as sequences of one-character strings, so   *)
(* that lower(), strip(), split(), startswith/endswith, substring search   *)
(* and the regular expressions of the source are computed character by     *)
(* character.  The external PDFProcessor is the environment: what it       *)
(* returns (load result, heading candidates, page text, metadata) is drawn *)
(* from small pools.                                                       *)
(***************************************************************************)
EXTENDS Integers, Sequences, FiniteSets, TLC

VARIABLES
    \* ---- StructureExtractor.extract_structure (one document) ----
    pc,               \* position inside extract_structure
    sections,         \* processor.extract_sections_by_formatting()
    first_page_text,  \* processor.extract_page_text(0)
    idx,              \* loop index of _refine_sections
    seen,             \* _refine_sections: seen
    cleaned,          \* _refine_sections: cleaned
    outline,          \* extract_structure: outline
    fallback_used,    \* whether _fallback_extract_labels was called
    metadata_title,   \* doc_info.get("title", "") as read by _extract_title
    title_candidates, \* processor.find_title_candidates() as read
    result,           \* the returned dict
    processor_open,   \* the extractor's processor holds an open document
    \* ---- PersonaAnalyzer.analyze_documents (a collection) ----
    apc,              \* position inside analyze_documents
    pdf_files,        \* the input list
    persona,          \* self.persona
    job_to_be_done,   \* self.job_to_be_done
    di,               \* loop index of _extract_document_contents
    attempted,        \* indices of pdf_files whose loop body was entered, in order
    documents,        \* _extract_document_contents: documents
    escaped,          \* an exception left the per-document loop
    scored,           \* _extract_relevant_sections: every relevance_score computed
    collected,        \* _extract_relevant_sections: relevant_sections before the sort
    relevant_sections,\* _extract_relevant_sections: the returned list
    subsection_analysis

ovars == <<pc, sections, first_page_text, idx, seen, cleaned, outline, fallback_used,
           metadata_title, title_candidates, result, processor_open>>
avars == <<apc, pdf_files, persona, job_to_be_done, di, attempted, documents, escaped,
           scored, collected, relevant_sections, subsection_analysis>>
vars == <<ovars, avars>>

-----------------------------------------------------------------------------
(* Python str operations on sequences of characters *)

UpperLetters ==
    <<"A","B","C","D","E","F","G","H","I","J","K","L","M",
      "N","O","P","Q","R","S","T","U","V","W","X","Y","Z">>
LowerLetters ==
    <<"a","b","c","d","e","f","g","h","i","j","k","l","m",
      "n","o","p","q","r","s","t","u","v","w","x","y","z">>
DigitChars == {"0","1","2","3","4","5","6","7","8","9"}
WhitespaceChars == {" ", "\t", "\n"}

UpperSet == {UpperLetters[i] : i \in DOMAIN UpperLetters}
LowerSet == {LowerLetters[i] : i \in DOMAIN LowerLetters}
\* the lowercase letter of every uppercase one
LowerOf ==
    [c \in UpperSet |->
        LowerLetters[CHOOSE i \in DOMAIN UpperLetters : UpperLetters[i] = c]]

IsUpperChar(c) == c \in UpperSet
IsLowerChar(c) == c \in LowerSet
IsAlphaChar(c) == IsUpperChar(c) \/ IsLowerChar(c)
IsDigitChar(c) == c \in DigitChars
\* \w of the re module
IsWordChar(c) == IsAlphaChar(c) \/ IsDigitChar(c) \/ c = "_"
\* \s of the re module
IsSpaceChar(c) == c \in WhitespaceChars

LowerChar(c) == IF IsUpperChar(c) THEN LowerOf[c] ELSE c

\* str.lower()
StrLower(s) == SubSeq([i \in 1..Len(s) |-> LowerChar(s[i])], 1, Len(s))

SetMin(S) == CHOOSE x \in S : \A y \in S : x <= y

\* str.strip()
Strip(s) ==
    IF \A i \in 1..Len(s) : IsSpaceChar(s[i]) THEN <<>>
    ELSE LET first == CHOOSE i \in 1..Len(s) :
                          ~IsSpaceChar(s[i]) /\ \A j \in 1..(i - 1) : IsSpaceChar(s[j])
             last == CHOOSE i \in 1..Len(s) :
                         ~IsSpaceChar(s[i]) /\ \A j \in (i + 1)..Len(s) : IsSpaceChar(s[j])
         IN  SubSeq(s, first, last)

\* str.rstrip(c)
RStripChar(s, c) ==
    IF \A i \in 1..Len(s) : s[i] = c THEN <<>>
    ELSE LET last == CHOOSE i \in 1..Len(s) :
                         s[i] # c /\ \A j \in (i + 1)..Len(s) : s[j] = c
         IN  SubSeq(s, 1, last)

\* str.startswith / the anchored literal alternatives of re.match
StartsWith(s, p) == Len(s) >= Len(p) /\ \A k \in 1..Len(p) : s[k] = p[k]
\* str.endswith
EndsWith(s, p) ==
    Len(s) >= Len(p) /\ \A k \in 1..Len(p) : s[Len(s) - Len(p) + k] = p[k]
\* sub in s
Contains(s, sub) ==
    \E i \in 0..(Len(s) - Len(sub)) : \A k \in 1..Len(sub) : s[i + k] = sub[k]

\* len(s.split()): the number of maximal runs of non-whitespace
WordCount(s) ==
    Cardinality({i \in 1..Len(s) :
        ~IsSpaceChar(s[i]) /\ (i = 1 \/ IsSpaceChar(s[i - 1]))})

\* str.isupper(): at least one cased character and no lowercase one
IsUpper(s) ==
    /\ \E i \in 1..Len(s) : IsUpperChar(s[i])
    /\ \A i \in 1..Len(s) : ~IsLowerChar(s[i])

\* s.split('\n'): the k-th newline ends the k-th line; empty lines are kept
SplitLines(s) ==
    LET nl == {i \in 1..Len(s) : s[i] = "\n"}
        \* position of the k-th newline, 0 for k = 0 and Len(s)+1 past the last
        cut[k \in 0..(Cardinality(nl) + 1)] ==
            IF k = 0 THEN 0
            ELSE IF k = Cardinality(nl) + 1 THEN Len(s) + 1
            ELSE CHOOSE p \in nl : Cardinality({q \in nl : q < p}) = k - 1
    IN  [k \in 1..(Cardinality(nl) + 1) |-> SubSeq(s, cut[k - 1] + 1, cut[k] - 1)]

\* a run of n copies of the character c
Repeat(c, n) == [i \in 1..n |-> c]

-----------------------------------------------------------------------------
(* StructureExtractor: the Section Segmenter *)

\* the length window of _refine_sections
MinTextLen == 3
MaxTextLen == 150
\* the word limit of a form label
MaxLabelWords == 8

\* the literal alternatives of the noise regular expression
NoisePrefixes ==
    {<<"p","a","g","e">>, <<"f","i","g","u","r","e">>, <<"t","a","b","l","e">>, <<"r","e","f">>, <<"w","w","w",".">>, <<"h","t","t","p">>}

\* \d{1,2} [A-Z]{3,} anchored at the start of t
DatePattern(t) ==
    \E d \in 1..2 :
        /\ Len(t) >= d + 4
        /\ \A i \in 1..d : IsDigitChar(t[i])
        /\ t[d + 1] = " "
        /\ \A i \in (d + 2)..(d + 4) : IsUpperChar(t[i])

\* re.match(r'^(page|figure|table|ref|www\.|http|\d{1,2} [A-Z]{3,})', t)
NoiseMatch(t) == (\E p \in NoisePrefixes : StartsWith(t, p)) \/ DatePattern(t)

HighPhrases ==
    {<<"r","e","v","i","s","i","o","n"," ","h","i","s","t","o","r","y">>, <<"t","a","b","l","e"," ","o","f"," ","c","o","n","t","e","n","t","s">>, <<"a","c","k","n","o","w","l","e","d","g","e","m","e","n","t","s">>,
     <<"i","n","t","r","o","d","u","c","t","i","o","n">>, <<"o","v","e","r","v","i","e","w">>, <<"s","y","l","l","a","b","u","s">>}

IsFormLabel(text) == EndsWith(text, <<":">>) /\ WordCount(text) <= MaxLabelWords

calculate_importance(text) ==
    IF LET lowered == StrLower(text) IN \E t \in HighPhrases : Contains(lowered, t) THEN 2
    ELSE IF IsFormLabel(text) THEN 1
    ELSE IF IsUpper(text) /\ 5 < Len(text) /\ Len(text) < 60 THEN 1
    ELSE 0

H1Phrases == {<<"o","v","e","r","v","i","e","w"," ","o","f">>, <<"i","n","t","r","o","d","u","c","t","i","o","n"," ","t","o">>, <<"r","e","f","e","r","e","n","c","e","s">>}

\* determine_level with the form-label test placed before the H1 phrases
MutLevelLabelFirst(text) ==
    IF IsFormLabel(text) THEN "H2"
    ELSE IF LET lowered == StrLower(text) IN \E k \in H1Phrases : Contains(lowered, k) THEN "H1"
    ELSE "H2"

determine_level(text) ==
    IF LET lowered == StrLower(text) IN \E k \in H1Phrases : Contains(lowered, k) THEN "H1"
    ELSE IF IsFormLabel(text) THEN "H2"
    ELSE "H2"

\* RefineKeeps without the length window
MutRefineKeepsNoLength(text, seenSet) ==
    /\ text \notin seenSet
    /\ ~NoiseMatch(StrLower(text))
    /\ calculate_importance(text) # 0

\* RefineKeeps with the upper length limit only
MutRefineKeepsNoMinLength(text, seenSet) ==
    /\ ~(text \in seenSet \/ ~(Len(text) <= MaxTextLen))
    /\ ~NoiseMatch(StrLower(text))
    /\ calculate_importance(text) # 0

\* RefineKeeps without the `text in seen` test
MutRefineKeepsNoSeen(text, seenSet) ==
    /\ MinTextLen <= Len(text) /\ Len(text) <= MaxTextLen
    /\ ~NoiseMatch(StrLower(text))
    /\ calculate_importance(text) # 0

\* the two `continue` tests and the importance test of one loop iteration:
\* TRUE when the stripped text is appended to cleaned
RefineKeeps(text, seenSet) ==
    /\ ~(text \in seenSet \/ ~(MinTextLen <= Len(text) /\ Len(text) <= MaxTextLen))
    /\ ~NoiseMatch(StrLower(text))
    /\ calculate_importance(text) # 0

\* _refine_sections as a function of the whole candidate list
RECURSIVE RefineFrom(_, _, _, _)
RefineFrom(secs, i, seenSet, acc) ==
    IF i > Len(secs) THEN acc
    ELSE LET text == Strip(secs[i].text)
         IN  IF RefineKeeps(text, seenSet)
             THEN RefineFrom(secs, i + 1, seenSet \cup {text},
                      Append(acc, [text |-> text, page |-> secs[i].page,
                                   level |-> determine_level(text)]))
             ELSE RefineFrom(secs, i + 1, seenSet, acc)

refine_sections(secs) == RefineFrom(secs, 1, {}, <<>>)

\* the outline comprehension of extract_structure
OutlineOf(refined) ==
    [k \in 1..Len(refined) |->
        [level |-> refined[k].level, text |-> refined[k].text, page |-> refined[k].page]]

\* fallback_extract_labels without rstrip(":")
MutFallbackKeepColon(text) ==
    LET lines == SplitLines(text)
        stripped == [k \in 1..Len(lines) |-> Strip(lines[k])]
        labels == SelectSeq(stripped, IsFormLabel)
    IN  [k \in 1..Len(labels) |-> [level |-> "H2", text |-> labels[k], page |-> 1]]

fallback_extract_labels(text) ==
    LET lines == SplitLines(text)
        stripped == [k \in 1..Len(lines) |-> Strip(lines[k])]
        labels == SelectSeq(stripped, IsFormLabel)
    IN  [k \in 1..Len(labels) |->
            [level |-> "H2", text |-> RStripChar(labels[k], ":"), page |-> 1]]

-----------------------------------------------------------------------------
(* StructureExtractor: title resolution *)

TitleSkipPrefixes ==
    {<<"p","a","g","e">>, <<"a","b","s","t","r","a","c","t">>, <<"i","n","t","r","o","d","u","c","t","i","o","n">>, <<"t","a","b","l","e"," ","o","f"," ","c","o","n","t","e","n","t","s">>, <<"w","w","w",".">>, <<"h","t","t","p">>}

PromoWords == {<<"c","h","a","l","l","e","n","g","e">>, <<"c","o","n","n","e","c","t","i","n","g">>, <<"d","o","t","s">>, <<"h","a","c","k","a","t","h","o","n">>}

\* the filter of the list comprehension: 5 < len(line.strip()) < 200
IsTitleLine(line) == 5 < Len(line) /\ Len(line) < 200

\* the score of the line at 0-based position i of lines[:15]
TitleLineScore(line, i) ==
    (IF \E w \in PromoWords : Contains(StrLower(line), w) THEN 3 ELSE 0)
    + (IF i < 5 THEN 2 ELSE 0)
    + (IF 10 <= Len(line) /\ Len(line) <= 100 THEN 1 ELSE 0)

extract_title_from_text(text) ==
    LET raw == SplitLines(text)
        lines == SelectSeq([k \in 1..Len(raw) |-> Strip(raw[k])], IsTitleLine)
        first == SubSeq(lines, 1, IF Len(lines) < 15 THEN Len(lines) ELSE 15)
        cand == {k \in 1..Len(first) :
                    ~\E p \in TitleSkipPrefixes : StartsWith(StrLower(first[k]), p)}
        score(k) == TitleLineScore(first[k], k - 1)
    IN  IF cand = {} THEN <<>>
        \* candidates.sort(key=score, reverse=True) is stable: the earliest
        \* line of the highest score is candidates[0]
        ELSE first[CHOOSE k \in cand :
                     \A j \in cand : score(k) > score(j) \/ (score(k) = score(j) /\ k <= j)]

\* "  ".join(c[0] for c in candidates[:2])
JoinTopTwo(cands) ==
    IF Len(cands) = 1 THEN cands[1] ELSE cands[1] \o <<" ", " ">> \o cands[2]

UntitledDocument == <<"U","n","t","i","t","l","e","d"," ","D","o","c","u","m","e","n","t">>

\* extract_title without the outline tier
MutExtractTitleNoOutline(ol, meta, cands, text) ==
    IF Strip(meta) # <<>> /\ Len(Strip(meta)) > 3 THEN Strip(meta)
    ELSE IF cands # <<>> THEN JoinTopTwo(cands)
    ELSE LET title_from_text == extract_title_from_text(text)
         IN  IF title_from_text # <<>> THEN title_from_text ELSE UntitledDocument

\* _extract_title: meta is doc_info.get("title", ""), cands the texts of
\* find_title_candidates(), text the first page's text
extract_title(ol, meta, cands, text) ==
    IF Strip(meta) # <<>> /\ Len(Strip(meta)) > 3 THEN Strip(meta)
    ELSE IF cands # <<>> THEN JoinTopTwo(cands)
    ELSE LET title_from_text == extract_title_from_text(text)
         IN  IF title_from_text # <<>> THEN title_from_text
             ELSE IF ol # <<>> THEN ol[1].text
             ELSE UntitledDocument

-----------------------------------------------------------------------------
(* Inputs of the single-document pipeline *)

\* the longest candidate list the external extractor returns
MaxCands == 2

T_Name == <<"N","a","m","e",":">>
T_NamePadded == <<" ","N","a","m","e",":"," ">>
T_Date == <<"1","2"," ","J","A","N">>
T_Overview == <<"O","V","E","R","V","I","E","W">>
T_Methodology == <<"M","e","t","h","o","d","o","l","o","g","y">>
T_TwoChars == <<"A",":">>
T_TooLong == Repeat("A", MaxTextLen) \o <<":">>
T_LongestLabel == Repeat("A", MaxTextLen - 1) \o <<":">>
T_NineWords == <<"a"," ","b"," ","c"," ","d"," ","e"," ","f"," ","g"," ","h"," ","i",":">>
T_Contents == <<"T","a","b","l","e"," ","o","f"," ","C","o","n","t","e","n","t","s">>
T_SeeRefs == <<"S","e","e"," ","r","e","f","e","r","e","n","c","e","s",":">>

\* RawHeadingCandidate records the external extractor can return
CandPool ==
    {[text |-> T_Name, page |-> 1], [text |-> T_NamePadded, page |-> 2],
     [text |-> T_Date, page |-> 1], [text |-> T_Overview, page |-> 1],
     [text |-> T_TwoChars, page |-> 1], [text |-> T_TooLong, page |-> 2],
     [text |-> T_LongestLabel, page |-> 2], [text |-> T_NineWords, page |-> 1],
     [text |-> T_Contents, page |-> 1], [text |-> T_SeeRefs, page |-> 3]}

CandLists == UNION {[1..n -> CandPool] : n \in 0..MaxCands}

P_Form == <<"N","a","m","e",":","\n","A","g","e",":","\n">>
P_Empty == <<>>
P_Labels == <<" "," ","A",":","\n","D","a","t","e"," ","o","f"," ","B","i","r","t","h",":",":","\n","p","l","a","i","n"," ","l","i","n","e","\n","O","n","e"," ","t","w","o"," ","t","h","r","e","e"," ","f","o","u","r"," ","f","i","v","e"," ","s","i","x"," ","s","e","v","e","n"," ","e","i","g","h","t"," ","n","i","n","e",":","\n">>
P_Promo == <<"P","a","g","e"," ","1","\n","S","o","m","e"," ","B","o","d","y"," ","T","e","x","t"," ","H","e","r","e","\n","C","o","n","n","e","c","t","i","n","g"," ","t","h","e"," ","D","o","t","s"," ","C","h","a","l","l","e","n","g","e","\n">>
P_Header == <<"P","a","g","e"," ","1"," ","o","f"," ","3","\n","w","w","w",".","e","x","a","m","p","l","e",".","c","o","m","\n","a","b","c">>

PagePool == {P_Form, P_Empty, P_Labels, P_Promo, P_Header}

MetaTitlePool == {<<>>, <<"a","b","c">>, <<" "," ","A","n","n","u","a","l"," ","R","e","p","o","r","t"," ">>}
TitleCandPool == {<<>>, <<<<"B","i","g"," ","T","i","t","l","e">>>>, <<<<"B","i","g">>, <<"T","i","t","l","e">>, <<"T","h","i","r","d">>>>}

NoResult == [title |-> <<>>, outline |-> <<>>, error |-> ""]

-----------------------------------------------------------------------------
(* StructureExtractor.extract_structure, step by step *)

\* the analyzer's variables while the single-document pipeline runs
AnalyzerIdle ==
    /\ apc = "idle"
    /\ pdf_files = <<>>
    /\ persona = <<>>
    /\ job_to_be_done = <<>>
    /\ di = 1
    /\ attempted = <<>>
    /\ documents = <<>>
    /\ escaped = FALSE
    /\ scored = <<>>
    /\ collected = <<>>
    /\ relevant_sections = <<>>
    /\ subsection_analysis = <<>>

InitOutline ==
    /\ pc = "load"
    /\ sections \in CandLists
    /\ first_page_text \in PagePool
    /\ idx = 1
    /\ seen = {}
    /\ cleaned = <<>>
    /\ outline = <<>>
    /\ fallback_used = FALSE
    /\ metadata_title = <<>>
    /\ title_candidates = <<>>
    /\ result = NoResult
    /\ processor_open = FALSE
    /\ AnalyzerIdle

\* if not self.processor.load_pdf(pdf_path): return {"title": "Error", ...}
LoadPdf ==
    /\ pc = "load"
    /\ \E ok \in BOOLEAN :
        IF ok
        THEN /\ pc' = "refine"
             /\ processor_open' = TRUE
             /\ result' = result
        ELSE /\ pc' = "done"
             /\ processor_open' = FALSE
             /\ result' = [title |-> <<"E","r","r","o","r">>, outline |-> <<>>,
                           error |-> "Failed to load PDF"]
    /\ UNCHANGED <<sections, first_page_text, idx, seen, cleaned, outline,
                   fallback_used, metadata_title, title_candidates>>
    /\ UNCHANGED avars

\* one iteration of `for sec in sections` in _refine_sections
RefineStep ==
    /\ pc = "refine"
    /\ idx <= Len(sections)
    /\ LET text == Strip(sections[idx].text)
       IN  IF RefineKeeps(text, seen)
           THEN /\ cleaned' = Append(cleaned,
                        [text |-> text, page |-> sections[idx].page,
                         level |-> determine_level(text)])
                /\ seen' = seen \cup {text}
           ELSE UNCHANGED <<cleaned, seen>>
    /\ idx' = idx + 1
    /\ UNCHANGED <<pc, sections, first_page_text, outline, fallback_used,
                   metadata_title, title_candidates, result, processor_open>>
    /\ UNCHANGED avars

\* return cleaned; outline = [{level, text, page} for s in refined]
BuildOutline ==
    /\ pc = "refine"
    /\ idx > Len(sections)
    /\ outline' = OutlineOf(cleaned)
    /\ pc' = IF OutlineOf(cleaned) = <<>> THEN "fallback" ELSE "title"
    /\ UNCHANGED <<sections, first_page_text, idx, seen, cleaned, fallback_used,
                   metadata_title, title_candidates, result, processor_open>>
    /\ UNCHANGED avars

\* if not outline: outline = self._fallback_extract_labels(first_page_text)
FallbackLabels ==
    /\ pc = "fallback"
    /\ outline' = fallback_extract_labels(first_page_text)
    /\ fallback_used' = TRUE
    /\ pc' = "title"
    /\ UNCHANGED <<sections, first_page_text, idx, seen, cleaned,
                   metadata_title, title_candidates, result, processor_open>>
    /\ UNCHANGED avars

\* title = self._extract_title(outline); self.processor.close(); return
ExtractTitle ==
    /\ pc = "title"
    /\ \E meta \in MetaTitlePool, cands \in TitleCandPool :
        /\ metadata_title' = meta
        /\ title_candidates' = cands
        /\ result' = [title |-> extract_title(outline, meta, cands, first_page_text),
                      outline |-> outline, error |-> ""]
    /\ processor_open' = FALSE
    /\ pc' = "done"
    /\ UNCHANGED <<sections, first_page_text, idx, seen, cleaned, outline, fallback_used>>
    /\ UNCHANGED avars

NextOutline == LoadPdf \/ RefineStep \/ BuildOutline \/ FallbackLabels \/ ExtractTitle

SpecOutline == InitOutline /\ [][NextOutline]_vars

-----------------------------------------------------------------------------
(* PersonaAnalyzer: section content expansion *)

\* '\n'.join(lines)
RECURSIVE JoinLines(_)
JoinLines(lines) ==
    IF lines = <<>> THEN <<>>
    ELSE IF Len(lines) = 1 THEN lines[1]
    ELSE lines[1] \o <<"\n">> \o JoinLines(Tail(lines))

\* ^\d+\.?\s+[A-Z]
NumberedHeading(t) ==
    /\ t # <<>>
    /\ IsDigitChar(t[1])
    /\ \E d \in 1..Len(t), dot \in 0..1, w \in 1..Len(t) :
        /\ d + dot + w + 1 <= Len(t)
        /\ \A i \in 1..d : IsDigitChar(t[i])
        /\ dot = 1 => t[d + 1] = "."
        /\ \A i \in (d + dot + 1)..(d + dot + w) : IsSpaceChar(t[i])
        /\ IsUpperChar(t[d + dot + w + 1])

\* ^[A-Z][A-Z\s]+$
AllCapsHeading(t) ==
    /\ Len(t) >= 2
    /\ IsUpperChar(t[1])
    /\ \A i \in 2..Len(t) : IsUpperChar(t[i]) \/ IsSpaceChar(t[i])

\* ^[A-Z][a-z]+(?:\s+[A-Z][a-z]+)*$
TitleCaseHeading(t) ==
    /\ Len(t) >= 2
    /\ \A i \in 1..Len(t) :
        IF IsUpperChar(t[i])
        THEN (i = 1 \/ IsSpaceChar(t[i - 1])) /\ i < Len(t) /\ IsLowerChar(t[i + 1])
        ELSE IF IsLowerChar(t[i])
        THEN i > 1 /\ IsAlphaChar(t[i - 1])
        ELSE IF IsSpaceChar(t[i])
        THEN /\ i > 1 /\ i < Len(t)
             /\ (IsLowerChar(t[i - 1]) \/ IsSpaceChar(t[i - 1]))
             /\ (IsUpperChar(t[i + 1]) \/ IsSpaceChar(t[i + 1]))
        ELSE FALSE

looks_like_heading(text) ==
    IF Len(text) < 3 \/ Len(text) > 150 THEN FALSE
    ELSE NumberedHeading(text) \/ AllCapsHeading(text) \/ TitleCaseHeading(text)

extract_section_content(page_text, section_title) ==
    LET lines == SplitLines(page_text)
        wanted == StrLower(section_title)
        hits == {i \in 1..Len(lines) : Contains(StrLower(lines[i]), wanted)}
    IN  IF hits = {} THEN <<>>
        ELSE LET start == SetMin(hits)
                 ends == {i \in (start + 1)..Len(lines) :
                             LET line == Strip(lines[i])
                             IN  Len(line) > 3 /\ looks_like_heading(line)}
                 end == IF ends = {} THEN Len(lines) + 1 ELSE SetMin(ends)
             IN  Strip(JoinLines(SubSeq(lines, start + 1, end - 1)))

\* _enrich_sections: a section's copy gets "content" when its page exists;
\* without the key the scorer reads section.get("content", "") = ""
enrich_sections(secs, pages) ==
    [k \in 1..Len(secs) |->
        [text |-> secs[k].text, page |-> secs[k].page,
         content |-> IF secs[k].page - 1 < Len(pages)
                     THEN extract_section_content(pages[secs[k].page], secs[k].text)
                     ELSE <<>>]]

-----------------------------------------------------------------------------
(* PersonaAnalyzer: keywords and relevance score *)

StopWords ==
    {<<"t","h","e">>, <<"a","n","d">>, <<"f","o","r">>, <<"a","r","e">>, <<"b","u","t">>, <<"n","o","t">>, <<"y","o","u">>, <<"a","l","l">>, <<"c","a","n">>,
     <<"h","a","d">>, <<"h","e","r">>, <<"w","a","s">>, <<"o","n","e">>, <<"o","u","r">>, <<"o","u","t">>, <<"d","a","y">>, <<"g","e","t">>, <<"h","a","s">>,
     <<"h","i","m">>, <<"h","i","s">>, <<"h","o","w">>, <<"m","a","n">>, <<"n","e","w">>, <<"n","o","w">>, <<"o","l","d">>, <<"s","e","e">>, <<"t","w","o">>,
     <<"w","a","y">>, <<"w","h","o">>, <<"b","o","y">>, <<"d","i","d">>, <<"i","t","s">>, <<"l","e","t">>, <<"p","u","t">>, <<"s","a","y">>, <<"s","h","e">>,
     <<"t","o","o">>, <<"u","s","e">>, <<"w","i","t","h">>, <<"h","a","v","e">>, <<"t","h","i","s">>, <<"w","i","l","l">>, <<"y","o","u","r">>, <<"f","r","o","m">>,
     <<"t","h","e","y">>, <<"k","n","o","w">>, <<"w","a","n","t">>, <<"b","e","e","n">>, <<"g","o","o","d">>, <<"m","u","c","h">>, <<"s","o","m","e">>, <<"t","i","m","e">>,
     <<"v","e","r","y">>, <<"w","h","e","n">>, <<"c","o","m","e">>, <<"h","e","r","e">>, <<"j","u","s","t">>, <<"l","i","k","e">>, <<"l","o","n","g">>, <<"m","a","k","e">>,
     <<"m","a","n","y">>, <<"o","v","e","r">>, <<"s","u","c","h">>, <<"t","a","k","e">>, <<"t","h","a","n">>, <<"t","h","e","m">>, <<"w","e","l","l">>, <<"w","e","r","e">>}

\* re.findall(r'\b[a-zA-Z]{3,}\b', text.lower()) minus the stop words: the
\* maximal runs of \w characters that are letters only and at least 3 long
extract_keywords(text) ==
    LET t == StrLower(text)
        starts == {i \in 1..Len(t) : IsWordChar(t[i]) /\ (i = 1 \/ ~IsWordChar(t[i - 1]))}
        stop(i) == SetMin({j \in i..Len(t) : j = Len(t) \/ ~IsWordChar(t[j + 1])})
        runs == {SubSeq(t, i, stop(i)) : i \in starts}
        words == {w \in runs : Len(w) >= 3 /\ \A k \in 1..Len(w) : IsAlphaChar(w[k])}
    IN  words \ StopWords

ResearchTriggers == {<<"r","e","s","e","a","r","c","h","e","r">>, <<"p","h","d">>, <<"a","c","a","d","e","m","i","c">>, <<"s","t","u","d","e","n","t">>}
ResearchTerms ==
    {<<"m","e","t","h","o","d","o","l","o","g","y">>, <<"a","n","a","l","y","s","i","s">>, <<"r","e","s","u","l","t","s">>, <<"c","o","n","c","l","u","s","i","o","n">>, <<"a","b","s","t","r","a","c","t">>,
     <<"l","i","t","e","r","a","t","u","r","e">>, <<"e","x","p","e","r","i","m","e","n","t">>, <<"d","a","t","a">>, <<"f","i","n","d","i","n","g","s">>, <<"h","y","p","o","t","h","e","s","i","s">>}
BusinessTriggers == {<<"a","n","a","l","y","s","t">>, <<"i","n","v","e","s","t","m","e","n","t">>, <<"b","u","s","i","n","e","s","s">>}
BusinessTerms ==
    {<<"r","e","v","e","n","u","e">>, <<"p","r","o","f","i","t">>, <<"g","r","o","w","t","h">>, <<"m","a","r","k","e","t">>, <<"f","i","n","a","n","c","i","a","l">>, <<"s","t","r","a","t","e","g","y">>,
     <<"c","o","m","p","e","t","i","t","i","v","e">>, <<"p","e","r","f","o","r","m","a","n","c","e">>, <<"r","o","i">>, <<"a","n","a","l","y","s","i","s">>}
EducationTriggers == {<<"s","t","u","d","e","n","t">>, <<"l","e","a","r","n","e","r">>, <<"e","d","u","c","a","t","i","o","n">>}
EducationTerms ==
    {<<"c","o","n","c","e","p","t">>, <<"p","r","i","n","c","i","p","l","e">>, <<"t","h","e","o","r","y">>, <<"e","x","a","m","p","l","e">>, <<"d","e","f","i","n","i","t","i","o","n">>,
     <<"e","x","p","l","a","n","a","t","i","o","n">>, <<"p","r","a","c","t","i","c","e">>, <<"e","x","e","r","c","i","s","e">>, <<"s","u","m","m","a","r","y">>}

\* one category's bonus in hundredths: 0.05 per term found, when the persona triggers it
CategoryBonus(triggers, terms, text, who) ==
    IF LET lowered == StrLower(who) IN \E w \in triggers : Contains(lowered, w)
    THEN 5 * Cardinality({term \in terms : Contains(text, term)})
    ELSE 0

\* the bonus before `return min(bonus, 0.3)`, in hundredths
RawDomainBonus(text, who) ==
    CategoryBonus(ResearchTriggers, ResearchTerms, text, who)
    + CategoryBonus(BusinessTriggers, BusinessTerms, text, who)
    + CategoryBonus(EducationTriggers, EducationTerms, text, who)

\* the cap of the bonus, in hundredths (0.3)
BonusCap == 30

IntMin(a, b) == IF a <= b THEN a ELSE b
IntMax(a, b) == IF a >= b THEN a ELSE b

\* _get_domain_bonuses without the cap
MutDomainBonusUncapped(text, who) == RawDomainBonus(text, who)

\* _get_domain_bonuses, in hundredths
get_domain_bonuses(text, who) == IntMin(RawDomainBonus(text, who), BonusCap)

\* Scores are exact fractions over the common denominator
\* 100 * max(len(persona_keywords),1) * max(len(job_keywords),1)
ScoreDen(pk, jk) == 100 * IntMax(Cardinality(pk), 1) * IntMax(Cardinality(jk), 1)

\* f"{section_text} {section_content}" of the lowercased text and content
CombinedText(section) == StrLower(section.text) \o <<" ">> \o StrLower(section.content)

\* 0.6 * job_score + 0.4 * persona_score + domain_bonuses, as a numerator over ScoreDen
UncappedScore(section, pk, jk, who) ==
    LET combined_text == CombinedText(section)
        sk == extract_keywords(combined_text)
        pn == IntMax(Cardinality(pk), 1)
        jn == IntMax(Cardinality(jk), 1)
    IN  60 * Cardinality(jk \cap sk) * pn
        + 40 * Cardinality(pk \cap sk) * jn
        + get_domain_bonuses(combined_text, who) * pn * jn

\* _calculate_relevance_score: min(score, 1.0), as a numerator over ScoreDen
calculate_relevance_score(section, pk, jk, who) ==
    IntMin(UncappedScore(section, pk, jk, who), ScoreDen(pk, jk))

-----------------------------------------------------------------------------
(* PersonaAnalyzer: cross-document ranking *)

\* the relevance threshold: relevance_score > 0.1, on numerators over den
AboveThreshold(num, den) == 10 * num > den

\* every (document, section) pair in the order of the two nested loops
RECURSIVE SectionsInOrder(_)
SectionsInOrder(docs) ==
    IF docs = <<>> THEN <<>>
    ELSE LET d == Head(docs)
         IN  [k \in 1..Len(d.content.sections) |->
                 [document |-> d.filename, section |-> d.content.sections[k]]]
             \o SectionsInOrder(Tail(docs))

\* the relevance_score of every section the loops visit, with its bonus
ScoreAll(docs, pk, jk, who) ==
    LET all == SectionsInOrder(docs)
    IN  [k \in 1..Len(all) |->
            [document |-> all[k].document,
             page |-> all[k].section.page,
             section_title |-> all[k].section.text,
             score |-> calculate_relevance_score(all[k].section, pk, jk, who),
             bonus |-> get_domain_bonuses(CombinedText(all[k].section), who)]]

IsRelevant(s, den) == AboveThreshold(s.score, den)

\* relevant_sections as the loops leave it: importance_rank holds the score
CollectRelevant(scoredSeq, den) ==
    LET kept == SelectSeq(scoredSeq, LAMBDA s : IsRelevant(s, den))
    IN  [k \in 1..Len(kept) |->
            [document |-> kept[k].document, page |-> kept[k].page,
             section_title |-> kept[k].section_title,
             importance_rank |-> kept[k].score]]

\* insertion that keeps x behind every entry whose key is not smaller
RECURSIVE InsertByRank(_, _)
InsertByRank(sorted, x) ==
    IF sorted = <<>> THEN <<x>>
    ELSE IF Head(sorted).importance_rank >= x.importance_rank
         THEN <<Head(sorted)>> \o InsertByRank(Tail(sorted), x)
         ELSE <<x>> \o sorted

RECURSIVE SortFrom(_, _, _)
SortFrom(list, i, acc) ==
    IF i > Len(list) THEN acc ELSE SortFrom(list, i + 1, InsertByRank(acc, list[i]))

\* the list left as the loops built it (the sort omitted)
MutNoSort(list) == list

\* relevant_sections.sort(key=lambda x: x["importance_rank"], reverse=True):
\* descending and stable
sort_by_rank(list) == SortFrom(list, 1, <<>>)

\* for i, section in enumerate(relevant_sections): section["importance_rank"] = i + 1
assign_ranks(sorted) ==
    [k \in 1..Len(sorted) |-> [sorted[k] EXCEPT !.importance_rank = k]]

\* how many ranked sections _analyze_subsections reads
TopSections == 10

refine_section_content(section, who, job) ==
    <<"K","e","y"," ","i","n","s","i","g","h","t","s"," ","f","r","o","m"," ">> \o section.section_title \o <<" ","r","e","l","e","v","a","n","t"," ","t","o"," ">> \o who
    \o <<" ","f","o","r"," ">> \o job

analyze_subsections(ranked, who, job) ==
    LET top == SubSeq(ranked, 1, IntMin(TopSections, Len(ranked)))
    IN  [k \in 1..Len(top) |->
            [document |-> top[k].document, page |-> top[k].page,
             section_title |-> top[k].section_title,
             refined_text |-> refine_section_content(top[k], who, job),
             relevance_score |-> top[k].importance_rank]]

-----------------------------------------------------------------------------
(* Inputs of the multi-document pipeline *)

\* the longest input list of documents
MaxDocs == 2

P_Methods == <<"M","e","t","h","o","d","o","l","o","g","y","\n","r","e","s","u","l","t","s"," ","a","n","a","l","y","s","i","s"," ","h","y","p","o","t","h","e","s","i","s">>
P_NotesTwo == <<"P","a","g","e"," ","2","\n","l","i","t","e","r","a","t","u","r","e"," ","r","e","v","i","e","w"," ","o","f"," ","d","a","t","a","\n","S","U","M","M","A","R","Y","\n","m","o","r","e"," ","t","e","x","t">>
P_Report == <<"M","A","R","K","E","T"," ","O","V","E","R","V","I","E","W","\n","m","a","r","k","e","t"," ","g","r","o","w","t","h"," ","a","n","d"," ","f","i","n","a","n","c","i","a","l"," ","s","t","r","a","t","e","g","y","\n","R","e","v","e","n","u","e"," ","G","r","o","w","t","h","\n","p","r","o","f","i","t"," ","a","n","d"," ","r","e","v","e","n","u","e"," ","p","e","r","f","o","r","m","a","n","c","e"," ","d","a","t","a"," ","a","n","a","l","y","s","i","s">>
P_Course == <<"S","t","u","d","e","n","t"," ","d","a","t","a"," ","a","n","a","l","y","s","i","s",":","\n","m","e","t","h","o","d","o","l","o","g","y"," ","a","n","a","l","y","s","i","s"," ","r","e","s","u","l","t","s"," ","c","o","n","c","l","u","s","i","o","n"," ","a","b","s","t","r","a","c","t"," ","d","a","t","a"," ","f","i","n","d","i","n","g","s","\n","c","o","n","c","e","p","t"," ","t","h","e","o","r","y"," ","e","x","a","m","p","l","e">>

D_Methods ==
    [name |-> "methods.pdf",
     sections |-> <<[text |-> T_Methodology, page |-> 1]>>,
     pages |-> <<P_Methods>>, meta |-> <<>>, cands |-> <<>>]
D_Notes ==
    [name |-> "notes.pdf",
     sections |-> <<[text |-> T_Methodology, page |-> 1], [text |-> <<"P","a","g","e"," ","2">>, page |-> 2]>>,
     pages |-> <<P_Methods, P_NotesTwo>>, meta |-> <<>>, cands |-> <<<<"L","a","b"," ","N","o","t","e","s">>>>]
D_Report ==
    [name |-> "report.pdf",
     sections |-> <<[text |-> <<"M","A","R","K","E","T"," ","O","V","E","R","V","I","E","W">>, page |-> 1],
                    [text |-> <<"R","e","v","e","n","u","e"," ","G","r","o","w","t","h">>, page |-> 1]>>,
     pages |-> <<P_Report>>, meta |-> <<"A","n","n","u","a","l"," ","R","e","p","o","r","t">>, cands |-> <<>>]
D_Course ==
    [name |-> "course.pdf",
     sections |-> <<[text |-> <<"S","t","u","d","e","n","t"," ","d","a","t","a"," ","a","n","a","l","y","s","i","s",":">>, page |-> 1],
                    [text |-> <<"S","u","m","m","a","r","y">>, page |-> 3]>>,
     pages |-> <<P_Course>>, meta |-> <<>>, cands |-> <<>>]
DocPool == {D_Methods, D_Notes, D_Report, D_Course}

\* the file names of the input directory
FileNames == {d.name : d \in DocPool}

\* what the PDFProcessor reads from the file of that name
DocOnDisk(name) == CHOOSE d \in DocPool : d.name = name

\* list(input_dir.glob("*.pdf")): distinct files in any order
FileLists ==
    {fs \in UNION {[1..n -> FileNames] : n \in 1..MaxDocs} :
        \A i, j \in DOMAIN fs : i # j => fs[i] # fs[j]}

PersonaPool == {<<"P","h","D"," ","r","e","s","e","a","r","c","h","e","r">>, <<"B","u","s","i","n","e","s","s"," ","a","n","a","l","y","s","t"," ","a","n","d"," ","s","t","u","d","e","n","t">>, <<>>}
JobPool == {<<"l","i","t","e","r","a","t","u","r","e"," ","r","e","v","i","e","w">>, <<"d","a","t","a"," ","a","n","a","l","y","s","i","s">>, <<>>}

\* what can happen to one document inside the try block
\* (load_pdf returns True and nothing raises; load_pdf returns False; load_pdf,
\* extract_structure or _extract_detailed_content raises an Exception)
Outcomes == {"ok", "load_false", "raises"}

-----------------------------------------------------------------------------
(* PersonaAnalyzer.analyze_documents *)

\* StructureExtractor.extract_structure on a document that loads
extract_structure(doc) ==
    LET first == IF doc.pages = <<>> THEN <<>> ELSE doc.pages[1]
        refined == OutlineOf(refine_sections(doc.sections))
        ol == IF refined = <<>> THEN fallback_extract_labels(first) ELSE refined
    IN  [title |-> extract_title(ol, doc.meta, doc.cands, first), outline |-> ol]

\* _extract_detailed_content reading the Segmenter's records instead of the
\* raw candidates
MutDetailedContentRefined(doc) ==
    [sections |-> enrich_sections(refine_sections(doc.sections), doc.pages)]

\* _extract_detailed_content; "full_text" and "page_texts" are stored and
\* never read again, only "sections" is kept here
extract_detailed_content(doc) ==
    [sections |-> enrich_sections(doc.sections, doc.pages)]

\* the dict appended to documents
DocumentEntry(doc) ==
    LET structure == extract_structure(doc)
    IN  [filename |-> doc.name,
         title |-> structure.title,
         outline |-> structure.outline,
         content |-> extract_detailed_content(doc)]

\* the loop body without the try/except
MutLoopNoExcept(outcome) ==
    IF outcome = "ok" THEN "append"
    ELSE IF outcome = "raises" THEN "raise"
    ELSE "continue"

\* what the loop body does with an outcome: "append" the document, "continue"
\* with the next one (load_pdf returned False, or `except Exception` caught
\* the exception), or "raise" out of the loop
LoopDisposition(outcome) ==
    IF outcome = "ok" THEN "append" ELSE "continue"

\* the extractor's variables while the multi-document pipeline runs
ExtractorIdle ==
    /\ pc = "idle"
    /\ sections = <<>>
    /\ first_page_text = <<>>
    /\ idx = 1
    /\ seen = {}
    /\ cleaned = <<>>
    /\ outline = <<>>
    /\ fallback_used = FALSE
    /\ metadata_title = <<>>
    /\ title_candidates = <<>>
    /\ result = NoResult
    /\ processor_open = FALSE

InitAnalyze ==
    /\ apc = "extract"
    /\ pdf_files \in FileLists
    /\ persona \in PersonaPool
    /\ job_to_be_done \in JobPool
    /\ di = 1
    /\ attempted = <<>>
    /\ documents = <<>>
    /\ escaped = FALSE
    /\ scored = <<>>
    /\ collected = <<>>
    /\ relevant_sections = <<>>
    /\ subsection_analysis = <<>>
    /\ ExtractorIdle

\* one iteration of `for pdf_file in pdf_files` in _extract_document_contents
ProcessDocument ==
    /\ apc = "extract"
    /\ di <= Len(pdf_files)
    /\ \E outcome \in Outcomes :
        LET disposition == LoopDisposition(outcome)
        IN  /\ attempted' = Append(attempted, [index |-> di, outcome |-> outcome])
            /\ documents' = IF disposition = "append"
                            THEN Append(documents, DocumentEntry(DocOnDisk(pdf_files[di])))
                            ELSE documents
            /\ escaped' = (disposition = "raise")
            /\ apc' = IF disposition = "raise" THEN "crashed" ELSE apc
    /\ di' = di + 1
    /\ UNCHANGED <<pdf_files, persona, job_to_be_done, scored, collected,
                   relevant_sections, subsection_analysis>>
    /\ UNCHANGED ovars

\* return documents; relevant_sections = self._extract_relevant_sections(...)
ExtractRelevantSections ==
    /\ apc = "extract"
    /\ di > Len(pdf_files)
    /\ LET pk == extract_keywords(persona)
           jk == extract_keywords(job_to_be_done)
           all == ScoreAll(documents, pk, jk, persona)
           kept == CollectRelevant(all, ScoreDen(pk, jk))
       IN  /\ scored' = all
           /\ collected' = kept
           /\ relevant_sections' = assign_ranks(sort_by_rank(kept))
    /\ apc' = "ranked"
    /\ UNCHANGED <<pdf_files, persona, job_to_be_done, di, attempted, documents,
                   escaped, subsection_analysis>>
    /\ UNCHANGED ovars

\* subsection_analysis = self._analyze_subsections(relevant_sections); return result
AnalyzeSubsections ==
    /\ apc = "ranked"
    /\ subsection_analysis' = analyze_subsections(relevant_sections, persona, job_to_be_done)
    /\ apc' = "done"
    /\ UNCHANGED <<pdf_files, persona, job_to_be_done, di, attempted, documents,
                   escaped, scored, collected, relevant_sections>>
    /\ UNCHANGED ovars

NextAnalyze == ProcessDocument \/ ExtractRelevantSections \/ AnalyzeSubsections

SpecAnalyze == InitAnalyze /\ [][NextAnalyze]_vars

-----------------------------------------------------------------------------
(* Properties of the multi-document pipeline (SpecAnalyze) *)

LoopDone == apc \in {"ranked", "done"}

\* the entries of attempted whose document was appended
AttemptedOk == SelectSeq(attempted, LAMBDA a : a.outcome = "ok")

RankOf(e) ==
    1 + Cardinality({f \in 1..Len(collected) :
            \/ collected[f].importance_rank > collected[e].importance_rank
            \/ /\ collected[f].importance_rank = collected[e].importance_rank
               /\ f < e})

\* C2: after ranking, extracted_sections holds the collected sections of all
\* documents ordered by their pre-overwrite score, non-increasing, equal
\* scores in encounter order, and the i-th entry's importance_rank is i.
C2_RankedByScore ==
    LoopDone =>
        /\ Len(relevant_sections) = Len(collected)
        /\ \A i \in 1..Len(relevant_sections) : relevant_sections[i].importance_rank = i
        /\ \A e \in 1..Len(collected) :
               relevant_sections[RankOf(e)] =
                   [collected[e] EXCEPT !.importance_rank = RankOf(e)]

\* a ranking of sections of two documents in which a later section overtakes
\* an earlier one and two sections tie
C2_Witness ==
    /\ apc = "ranked"
    /\ Len(collected) >= 3
    /\ \E e, f \in 1..Len(collected) :
        /\ e < f
        /\ collected[e].document # collected[f].document
        /\ collected[e].importance_rank < collected[f].importance_rank
    /\ \E e, f \in 1..Len(collected) :
        /\ e < f
        /\ collected[e].document # collected[f].document
        /\ collected[e].importance_rank = collected[f].importance_rank

\* the raw heading candidates of the processed documents, in loop order
RECURSIVE RawCandidatesOf(_)
RawCandidatesOf(docs) ==
    IF docs = <<>> THEN <<>>
    ELSE LET raw == DocOnDisk(Head(docs).filename).sections
         IN  [k \in 1..Len(raw) |->
                 [document |-> Head(docs).filename, text |-> raw[k].text,
                  page |-> raw[k].page]]
             \o RawCandidatesOf(Tail(docs))

\* the Segmenter keeps a record of this text and page for this document
SurvivesSegmenter(document, text, page) ==
    LET kept == refine_sections(DocOnDisk(document).sections)
    IN  \E k \in 1..Len(kept) : kept[k].text = Strip(text) /\ kept[k].page = page

RunDen == ScoreDen(extract_keywords(persona), extract_keywords(job_to_be_done))

\* C3 as stated: every section of extracted_sections is a record the Segmenter
\* kept for its document.
C3_OnlySegmenterRecordsRanked ==
    \A r \in 1..Len(relevant_sections) :
        SurvivesSegmenter(relevant_sections[r].document,
                          relevant_sections[r].section_title,
                          relevant_sections[r].page)

\* C3 amended: the Relevance Pipeline scores every raw heading candidate of
\* every processed document, whether or not the Segmenter keeps it, and
\* extracted_sections lists exactly the candidates whose score exceeds 0.1.
C3_RawCandidatesRanked ==
    LoopDone =>
        LET raw == RawCandidatesOf(documents)
            above == {j \in 1..Len(scored) : AboveThreshold(scored[j].score, RunDen)}
        IN  /\ Len(scored) = Len(raw)
            /\ \A j \in 1..Len(raw) :
                /\ scored[j].document = raw[j].document
                /\ scored[j].section_title = raw[j].text
                /\ scored[j].page = raw[j].page
            /\ Len(relevant_sections) = Cardinality(above)
            /\ \A r \in 1..Len(relevant_sections) :
                   \E j \in above :
                       /\ scored[j].document = relevant_sections[r].document
                       /\ scored[j].section_title = relevant_sections[r].section_title
                       /\ scored[j].page = relevant_sections[r].page

\* a ranked section that the Segmenter rejects for its document
C3_Witness ==
    /\ apc = "done"
    /\ \E r \in 1..Len(relevant_sections) :
           ~SurvivesSegmenter(relevant_sections[r].document,
                              relevant_sections[r].section_title,
                              relevant_sections[r].page)

\* C8: every relevance score lies in [0,1] and the summed domain bonus is at
\* most 0.30, also when the persona triggers several bonus categories.
C8_ScoreInUnitInterval ==
    \A j \in 1..Len(scored) :
        /\ 0 <= scored[j].score
        /\ scored[j].score <= RunDen
        /\ 0 <= scored[j].bonus
        /\ scored[j].bonus <= 30      \* hundredths

\* a persona that triggers all three categories, a section whose bonus is at
\* the cap and whose score is capped at 1
C8_Witness ==
    /\ LoopDone
    /\ \A t \in {ResearchTriggers, BusinessTriggers, EducationTriggers} :
           \E w \in t : Contains(StrLower(persona), w)
    /\ \E j \in 1..Len(scored) :
        /\ scored[j].score = RunDen
        /\ scored[j].bonus = 30
        /\ \E d \in 1..Len(documents) :
            \E s \in 1..Len(documents[d].content.sections) :
                /\ documents[d].filename = scored[j].document
                /\ documents[d].content.sections[s].text = scored[j].section_title
                /\ RawDomainBonus(CombinedText(documents[d].content.sections[s]), persona)
                       > BonusCap
                /\ UncappedScore(documents[d].content.sections[s],
                                 extract_keywords(persona),
                                 extract_keywords(job_to_be_done), persona) > RunDen

-----------------------------------------------------------------------------
(* Properties of the single-document pipeline (SpecOutline) *)

\* the trimmed text of the i-th candidate
CandidateText(i) == Strip(sections[i].text)

\* the candidates the loop of _refine_sections has gone through
Processed == 1..(idx - 1)

\* the noise rule as the specification words it: the lowercased text starts
\* with one of the prefixes, or the text is one or two digits, a space and
\* three or more uppercase letters
StatedNoise(t) ==
    \/ \E p \in NoisePrefixes : StartsWith(StrLower(t), p)
    \/ DatePattern(t)

\* C4 as stated: no candidate whose trimmed text is noise (a noise prefix, or
\* the date-like pattern such as "12 JAN") appears in the Segmenter's output.
C4_NoNoiseInOutput ==
    \A k \in 1..Len(cleaned) : ~StatedNoise(cleaned[k].text)

\* a text ending in ":" with at most 8 whitespace-separated words
EndsInColon(t) == t # <<>> /\ t[Len(t)] = ":"
IsShortLabel(t) == EndsInColon(t) /\ WordCount(t) <= 8

\* C5 as stated: every candidate text ending in ":" with at most 8 words gets
\* importance at least 1 and level "H2".
C5_LabelIsH2 ==
    /\ \A i \in Processed :
           IsShortLabel(CandidateText(i)) => calculate_importance(CandidateText(i)) >= 1
    /\ \A k \in 1..Len(cleaned) :
           IsShortLabel(cleaned[k].text) => cleaned[k].level = "H2"

\* the text, lowercased, contains one of the phrases that make a heading H1
HasH1Phrase(t) ==
    \E p \in {<<"o","v","e","r","v","i","e","w"," ","o","f">>, <<"i","n","t","r","o","d","u","c","t","i","o","n"," ","t","o">>, <<"r","e","f","e","r","e","n","c","e","s">>} :
        Contains(StrLower(t), p)

\* C5 amended: every candidate text ending in ":" with at most 8 words gets
\* importance at least 1, so that it is kept whenever it is new, of 3 to 150
\* characters and not noise; its level is "H2" unless its lowercased text
\* contains "overview of", "introduction to" or "references", and then "H1".
C5_LabelLevel ==
    /\ \A i \in Processed :
           LET t == CandidateText(i)
           IN  IsShortLabel(t) =>
                   /\ calculate_importance(t) >= 1
                   /\ (3 <= Len(t) /\ Len(t) <= 150 /\ ~NoiseMatch(StrLower(t)))
                          => \E k \in 1..Len(cleaned) : cleaned[k].text = t
    /\ \A k \in 1..Len(cleaned) :
           IsShortLabel(cleaned[k].text) =>
               cleaned[k].level = IF HasH1Phrase(cleaned[k].text) THEN "H1" ELSE "H2"

\* the Segmenter has emitted one label as H2 and one label as H1
C5_Witness ==
    /\ pc = "done"
    /\ \E k \in 1..Len(cleaned) :
           IsShortLabel(cleaned[k].text) /\ cleaned[k].level = "H2"
    /\ \E k \in 1..Len(cleaned) :
           IsShortLabel(cleaned[k].text) /\ cleaned[k].level = "H1"

\* extract_structure returned a title and an outline
Returned == pc = "done" /\ result.error = ""

NoPromoWord(text) ==
    ~\E w \in {<<"c","h","a","l","l","e","n","g","e">>, <<"c","o","n","n","e","c","t","i","n","g">>, <<"d","o","t","s">>, <<"h","a","c","k","a","t","h","o","n">>} :
        Contains(StrLower(text), w)

\* C6 as stated: metadata title empty, no title candidates, first-page text
\* without promotional keywords and a non-empty outline give the first outline
\* entry's text as the title.
C6_TitleIsFirstOutlineEntry ==
    (/\ Returned
     /\ metadata_title = <<>>
     /\ title_candidates = <<>>
     /\ NoPromoWord(first_page_text)
     /\ result.outline # <<>>)
        => result.title = result.outline[1].text

\* the heuristic scan has no line to return: each of the first 15 lines whose
\* trimmed length is above 5 and below 200 starts with a skipped prefix
NoScanLine(text) ==
    LET raw == SplitLines(text)
        lines == SelectSeq([k \in 1..Len(raw) |-> Strip(raw[k])],
                           LAMBDA l : 5 < Len(l) /\ Len(l) < 200)
    IN  \A k \in 1..Len(lines) :
            k <= 15 =>
                \E p \in {<<"p","a","g","e">>, <<"a","b","s","t","r","a","c","t">>, <<"i","n","t","r","o","d","u","c","t","i","o","n">>,
                          <<"t","a","b","l","e"," ","o","f"," ","c","o","n","t","e","n","t","s">>, <<"w","w","w",".">>, <<"h","t","t","p">>} :
                    StartsWith(StrLower(lines[k]), p)

\* C6 amended: metadata title empty, no title candidates, a first-page text in
\* which the heuristic scan finds no line (not merely no promotional keyword)
\* and a non-empty outline give the first outline entry's text as the title.
C6_TitleFallsToOutline ==
    (/\ Returned
     /\ metadata_title = <<>>
     /\ title_candidates = <<>>
     /\ NoScanLine(first_page_text)
     /\ result.outline # <<>>)
        => result.title = result.outline[1].text

\* the fourth tier decided the title, over a first page that has lines the
\* scan skips
C6_Witness ==
    /\ Returned
    /\ metadata_title = <<>>
    /\ title_candidates = <<>>
    /\ first_page_text = P_Header
    /\ NoScanLine(first_page_text)
    /\ result.outline # <<>>
    /\ result.title = result.outline[1].text

TextLengthInWindow(t) == 3 <= Len(Strip(t)) /\ Len(Strip(t)) <= 150

\* C7 as stated: every record of the emitted outline, from the Segmenter or
\* from the fallback label scan, has trimmed text of 3 to 150 characters.
C7_OutlineTextLength ==
    Returned => \A k \in 1..Len(result.outline) : TextLengthInWindow(result.outline[k].text)

\* C7 amended: every record of the emitted outline that the Segmenter
\* produced has trimmed text of 3 to 150 characters; the records of the
\* fallback label scan are not bounded in length.
C7_SegmenterTextLength ==
    /\ \A k \in 1..Len(cleaned) :
           TextLengthInWindow(cleaned[k].text) /\ Strip(cleaned[k].text) = cleaned[k].text
    /\ (Returned /\ ~fallback_used) =>
           \A k \in 1..Len(result.outline) : TextLengthInWindow(result.outline[k].text)

\* the Segmenter emitted a record of exactly 150 characters while a label of
\* 151 characters was among the candidates
C7_Witness ==
    /\ Returned
    /\ ~fallback_used
    /\ \E k \in 1..Len(result.outline) : Len(result.outline[k].text) = 150
    /\ \E i \in 1..Len(sections) :
           Len(CandidateText(i)) = 151 /\ IsShortLabel(CandidateText(i))

\* the lines of the first page that the label scan turns into records
LabelLines ==
    LET raw == SplitLines(first_page_text)
    IN  SelectSeq([k \in 1..Len(raw) |-> Strip(raw[k])], IsShortLabel)

\* text is line without the colons at its end
IsLineWithoutColons(text, line) ==
    /\ Len(text) < Len(line)
    /\ \A i \in 1..Len(text) : text[i] = line[i]
    /\ \A i \in (Len(text) + 1)..Len(line) : line[i] = ":"
    /\ ~EndsInColon(text)

\* C9: the fallback label scan runs only when the Segmenter yields an empty
\* list; its output has one H2 record on page 1 for every line of page 1's
\* text that ends in ":" and has at most 8 words, in line order, the text
\* being the line without the trailing colon; no candidates and the page text
\* "Name:\nAge:\n" give exactly [H2 "Name" p1, H2 "Age" p1].
C9_FallbackLabelScan ==
    /\ fallback_used => (cleaned = <<>> /\ idx > Len(sections))
    /\ fallback_used =>
        /\ Len(outline) = Len(LabelLines)
        /\ \A k \in 1..Len(outline) :
            /\ outline[k].level = "H2"
            /\ outline[k].page = 1
            /\ IsLineWithoutColons(outline[k].text, LabelLines[k])
    /\ (Returned /\ sections = <<>> /\ first_page_text = <<"N","a","m","e",":","\n","A","g","e",":","\n">>) =>
           result.outline = <<[level |-> "H2", text |-> <<"N","a","m","e">>, page |-> 1],
                              [level |-> "H2", text |-> <<"A","g","e">>, page |-> 1]>>

\* the scenario: no candidates, page text "Name:\nAge:\n", two records returned
C9_Witness ==
    /\ Returned
    /\ fallback_used
    /\ sections = <<>>
    /\ first_page_text = <<"N","a","m","e",":","\n","A","g","e",":","\n">>
    /\ Len(result.outline) = 2

\* C10: the Segmenter's output never holds two records of the same text; the
\* record kept for a text is the one of its first candidate, and the later
\* candidates of the same trimmed text (compared case-sensitively) add nothing.
C10_UniqueTexts ==
    /\ \A j, k \in 1..Len(cleaned) : j # k => cleaned[j].text # cleaned[k].text
    /\ \A k \in 1..Len(cleaned) :
           LET first == SetMin({i \in Processed : CandidateText(i) = cleaned[k].text})
           IN  cleaned[k].page = sections[first].page
    /\ seen = {cleaned[k].text : k \in 1..Len(cleaned)}

\* two candidates of the same trimmed text, on different pages, passed through
\* the Segmenter and one record was kept
C10_Witness ==
    /\ pc = "done"
    /\ \E i, j \in 1..Len(sections) :
        /\ i < j
        /\ CandidateText(i) = CandidateText(j)
        /\ sections[i].page # sections[j].page
        /\ \E k \in 1..Len(cleaned) : cleaned[k].text = CandidateText(i)
    /\ Len(cleaned) = 1

\* the trimmed text is shorter than 3 or longer than 150 characters
OutOfWindow(t) == Len(t) < 3 \/ Len(t) > 150

\* C11: for every candidate whose trimmed text is shorter than 3 or longer
\* than 150 characters the Segmenter emits no HeadingRecord, at any position of
\* the candidate list and whatever the text is (a form label, an uppercase
\* heading, a text with a high-importance phrase): no record of the output
\* carries such a text, and the output has at most one record per candidate
\* inside the window.
C11_NoRecordOutsideWindow ==
    /\ \A i \in Processed :
           OutOfWindow(CandidateText(i)) =>
               \A k \in 1..Len(cleaned) : cleaned[k].text # CandidateText(i)
    /\ Len(cleaned) <= Cardinality({i \in Processed : ~OutOfWindow(CandidateText(i))})

\* a label of fewer than 3 characters and a label of more than 150
\* characters, each of which only the length test rejects (it is not noise
\* and its importance is 1), have both gone through the Segmenter
C11_Witness ==
    /\ pc = "done"
    /\ idx > Len(sections)
    /\ \E i, j \in 1..Len(sections) :
        /\ Len(CandidateText(i)) < 3
        /\ Len(CandidateText(j)) > 150
        /\ \A c \in {i, j} :
            /\ IsShortLabel(CandidateText(c))
            /\ ~NoiseMatch(StrLower(CandidateText(c)))
            /\ calculate_importance(CandidateText(c)) >= 1

=============================================================================
